---- MODULE Spec2Model ----
(***************************************************************************)
(* Model of the remote MCP server for Smartsheet (src/src/remote-server.ts) *)
(* : the Express middleware chain, the authentication middleware, the      *)
(* JSON-RPC router of POST /mcp, the tool registration sweep and the       *)
(* bounded pool of API clients.                                            *)
(*                                                                         *)
(* JavaScript values are written as strings.  A JavaScript string is       *)
(* itself; the values that are not strings are the markers below.  An HTTP *)
(* header that is absent reads as undefined.                               *)
(***************************************************************************)
EXTENDS Integers, Sequences, FiniteSets, Bags, TLC

Undefined == "<undefined>"
Null == "<null>"
NumZero == "<0>"
NumSeven == "<7>"
EmptyObject == "<{}>"

\* ToBoolean(v) = false
Falsy(v) == v \in {Undefined, Null, NumZero, ""}

\* a || b
OrElse(a, b) == IF Falsy(a) THEN b ELSE a

\* `${v}` in a template literal
ToStr(v) ==
  CASE v = Undefined -> "undefined"
    [] v = Null -> "null"
    [] v = NumZero -> "0"
    [] v = NumSeven -> "7"
    [] v = EmptyObject -> "[object Object]"
    [] OTHER -> v

(***************************************************************************)
(* Bounds of the model.                                                    *)
(***************************************************************************)
\* tools/call requests whose handler has not settled yet
MaxInflight == 2

\* fields of a tool's schema
MaxFields == 2

\* one-off credentials already in the pool when observation starts
WarmStrangers == 98

(***************************************************************************)
(* Program constants.                                                      *)
(***************************************************************************)
\* if (apiInstances.size > 100)
PoolLimit == 100

VARIABLES
  REQUIRE_AUTH,   \* process.env.REQUIRE_AUTH !== 'false'
  SECRET_KEY,     \* process.env.SECRET_KEY || ''
  apiInstances,   \* the Map, as the sequence of its entries in insertion order
  constructed,    \* number of SmartsheetAPI objects built by getApiInstance
  inflight,       \* the bag of tools/call suspended at `await toolResult`
  exchange,       \* the request being followed: its stage, response, effects
  registration    \* a call of the replaced tool(): the tool given, the definition pushed

vars ==
  <<REQUIRE_AUTH, SECRET_KEY, apiInstances, constructed, inflight, exchange, registration>>

(***************************************************************************)
(* The tool modules (./tools/smartsheet-*-tools.js).  Each registration    *)
(* function calls server.tool(name, description, schema, handler) once per *)
(* tool; the model keeps the sequence of those calls.  A schema is the     *)
(* sequence of its fields; `described` says whether the field's value      *)
(* exposes a description attribute.                                        *)
(***************************************************************************)
Field(key, described, description) ==
  [key |-> key, described |-> described, description |-> description]

\* server.tool(name, description, schema, handler)
Tool(name, description, schema) ==
  [name |-> name, description |-> description, hasSchema |-> TRUE, schema |-> schema]

\* server.tool(name, description, handler)
ToolNoSchema(name, description) ==
  [name |-> name, description |-> description, hasSchema |-> FALSE, schema |-> <<>>]

getDiscussionTools ==
  << Tool("get_discussions_by_sheet_id", "List discussions",
          <<Field("sheetId", TRUE, "The ID of the sheet")>>) >>

getFolderTools ==
  << Tool("get_folder", "Get a folder",
          <<Field("folderId", TRUE, "The ID of the folder")>>) >>

getSearchTools ==
  << Tool("search_sheets", "Search sheets",
          <<Field("query", TRUE, "Text to search for")>>) >>

getSheetTools(allowDeleteTools) ==
  << Tool("get_sheet", "Get a sheet",
          <<Field("sheetId", TRUE, "The ID of the sheet"),
            Field("include", FALSE, "")>>) >>
  \o (IF allowDeleteTools
      THEN << Tool("delete_rows", "Delete rows",
                   <<Field("sheetId", TRUE, "The ID of the sheet"),
                     Field("rowIds", TRUE, "Row IDs to delete")>>) >>
      ELSE <<>>)

getUpdateRequestTools ==
  << Tool("create_update_request", "Create an update request",
          <<Field("sheetId", TRUE, "The ID of the sheet")>>) >>

getUserTools ==
  << ToolNoSchema("get_current_user", "Get the current user") >>

getWorkspaceTools ==
  << ToolNoSchema("get_workspaces", "List workspaces") >>

\* the sweep registering the deletion tools whatever the flag
RegistrationSweep_DeleteAlways(allowDeleteTools) ==
  getDiscussionTools \o getFolderTools \o getSearchTools
    \o getSheetTools(TRUE) \o getUpdateRequestTools
    \o getUserTools \o getWorkspaceTools

\* the sweep registering the sheet tools before the others
RegistrationSweep_SheetsFirst(allowDeleteTools) ==
  getSheetTools(allowDeleteTools) \o getDiscussionTools \o getFolderTools
    \o getSearchTools \o getUpdateRequestTools
    \o getUserTools \o getWorkspaceTools

\* The calls to server.tool made by the seven registration functions, in order.
RegistrationSweep(allowDeleteTools) ==
  getDiscussionTools \o getFolderTools \o getSearchTools
    \o getSheetTools(allowDeleteTools) \o getUpdateRequestTools
    \o getUserTools \o getWorkspaceTools

(***************************************************************************)
(* The pool of API clients.                                                *)
(***************************************************************************)
DefaultEndpoint == "https://api.smartsheet.com/2.0"

\* new SmartsheetAPI(apiKey, endpoint, true); n tells the objects apart
SmartsheetAPI(n, apiKey, endpoint) ==
  [n |-> n, apiKey |-> apiKey, endpoint |-> endpoint]

\* `${apiKey}:${apiEndpoint || 'default'}`
CredentialKey(apiKey, apiEndpoint) ==
  ToStr(apiKey) \o ":" \o ToStr(OrElse(apiEndpoint, "default"))

Keys(instances) == { instances[i].key : i \in 1..Len(instances) }

\* apiInstances.get(key)
MapGet(instances, key) ==
  IF key \in Keys(instances)
  THEN (CHOOSE i \in 1..Len(instances) : instances[i].key = key)
  ELSE 0

\* apiInstances.set(key, api): a new key goes last, a present key keeps its place
MapSet(instances, key, api) ==
  IF key \in Keys(instances)
  THEN [i \in 1..Len(instances) |->
          IF instances[i].key = key THEN [key |-> key, api |-> api] ELSE instances[i]]
  ELSE Append(instances, [key |-> key, api |-> api])

\* apiInstances.delete(key)
MapDelete(instances, key) ==
  SelectSeq(instances, LAMBDA e : e.key # key)

\* getApiInstance evicting one entry too late
getApiInstance_EvictLate(instances, n, apiKey, apiEndpoint) ==
  LET key == CredentialKey(apiKey, apiEndpoint)
      at == MapGet(instances, key)
  IN IF at # 0
     THEN [instances |-> instances, api |-> instances[at].api, built |-> FALSE,
           evicted |-> <<>>]
     ELSE
       LET api == SmartsheetAPI(n + 1, apiKey, OrElse(apiEndpoint, DefaultEndpoint))
           added == MapSet(instances, key, api)
           firstKey == added[1].key
           evict == Len(added) > PoolLimit + 1 /\ ~Falsy(firstKey)
       IN [instances |-> IF evict THEN MapDelete(added, firstKey) ELSE added,
           api |-> api, built |-> TRUE,
           evicted |-> IF evict THEN <<firstKey>> ELSE <<>>]

\* getApiInstance deleting the last key of the map instead of the first
getApiInstance_EvictNewest(instances, n, apiKey, apiEndpoint) ==
  LET key == CredentialKey(apiKey, apiEndpoint)
      at == MapGet(instances, key)
  IN IF at # 0
     THEN [instances |-> instances, api |-> instances[at].api, built |-> FALSE,
           evicted |-> <<>>]
     ELSE
       LET api == SmartsheetAPI(n + 1, apiKey, OrElse(apiEndpoint, DefaultEndpoint))
           added == MapSet(instances, key, api)
           lastKey == added[Len(added)].key
           evict == Len(added) > PoolLimit /\ ~Falsy(lastKey)
       IN [instances |-> IF evict THEN MapDelete(added, lastKey) ELSE added,
           api |-> api, built |-> TRUE,
           evicted |-> IF evict THEN <<lastKey>> ELSE <<>>]

\* getApiInstance moving the entry it hits to the newest position
getApiInstance_RefreshOnHit(instances, n, apiKey, apiEndpoint) ==
  LET key == CredentialKey(apiKey, apiEndpoint)
      at == MapGet(instances, key)
  IN IF at # 0
     THEN [instances |-> MapSet(MapDelete(instances, key), key, instances[at].api),
           api |-> instances[at].api, built |-> FALSE, evicted |-> <<>>]
     ELSE
       LET api == SmartsheetAPI(n + 1, apiKey, OrElse(apiEndpoint, DefaultEndpoint))
           added == MapSet(instances, key, api)
           firstKey == added[1].key
           evict == Len(added) > PoolLimit /\ ~Falsy(firstKey)
       IN [instances |-> IF evict THEN MapDelete(added, firstKey) ELSE added,
           api |-> api, built |-> TRUE,
           evicted |-> IF evict THEN <<firstKey>> ELSE <<>>]

\* getApiInstance building a client on every call
getApiInstance_AlwaysNew(instances, n, apiKey, apiEndpoint) ==
  LET key == CredentialKey(apiKey, apiEndpoint)
      api == SmartsheetAPI(n + 1, apiKey, OrElse(apiEndpoint, DefaultEndpoint))
      added == MapSet(instances, key, api)
      firstKey == added[1].key
      evict == Len(added) > PoolLimit /\ ~Falsy(firstKey)
  IN [instances |-> IF evict THEN MapDelete(added, firstKey) ELSE added,
      api |-> api, built |-> TRUE,
      evicted |-> IF evict THEN <<firstKey>> ELSE <<>>]

\* getApiInstance(apiKey, apiEndpoint) on the pool `instances`, n objects built so far.
\* Returns the pool afterwards, the client returned, and what happened.
getApiInstance(instances, n, apiKey, apiEndpoint) ==
  LET key == CredentialKey(apiKey, apiEndpoint)
      at == MapGet(instances, key)
  IN IF at # 0
     THEN [instances |-> instances, api |-> instances[at].api, built |-> FALSE,
           evicted |-> <<>>]
     ELSE
       LET api == SmartsheetAPI(n + 1, apiKey, OrElse(apiEndpoint, DefaultEndpoint))
           added == MapSet(instances, key, api)
           firstKey == added[1].key
           evict == Len(added) > PoolLimit /\ ~Falsy(firstKey)
       IN [instances |-> IF evict THEN MapDelete(added, firstKey) ELSE added,
           api |-> api, built |-> TRUE,
           evicted |-> IF evict THEN <<firstKey>> ELSE <<>>]

(***************************************************************************)
(* Requests and responses.                                                 *)
(***************************************************************************)
\* The request body as sent.  kind: "malformed" (not JSON), "none" (no JSON
\* body), "array", "object"; the other fields are those of an object body,
\* params.name and params.arguments being Undefined when params is absent.
Body(kind, method, id, name, arguments) ==
  [kind |-> kind, method |-> method, id |-> id, name |-> name, arguments |-> arguments]

Request(verb, path, secretKey, apiKey, endpoint, allowDelete, body) ==
  [verb |-> verb, path |-> path, secretKey |-> secretKey, apiKey |-> apiKey,
   endpoint |-> endpoint, allowDelete |-> allowDelete, body |-> body]

\* the members of the result of initialize
ServerSelf(protocolVersion, tools, prompts, resources, name, version) ==
  [protocolVersion |-> protocolVersion,
   capabilities |-> [tools |-> tools, prompts |-> prompts, resources |-> resources],
   serverInfo |-> [name |-> name, version |-> version]]

NoSelf == ServerSelf(Undefined, Undefined, Undefined, Undefined, Undefined, Undefined)

\* A result: the tools of a catalogue, the value of a tool, or what the
\* server says of itself.
NoResult == [kind |-> "none", tools |-> <<>>, value |-> Undefined, self |-> NoSelf]

\* res.status(status).json({jsonrpc: '2.0', error: {code, message}, id})
JsonRpcError(status, code, message, id) ==
  [status |-> status, jsonrpc |-> TRUE, code |-> code, message |-> message,
   id |-> id, result |-> NoResult]

\* res.json({jsonrpc: '2.0', result, id})
JsonRpcResult(result, id) ==
  [status |-> 200, jsonrpc |-> TRUE, code |-> 0, message |-> "", id |-> id,
   result |-> result]

\* res.status(status).json({error, message}) or any body that is no JSON-RPC envelope
PlainResponse(status, message, result) ==
  [status |-> status, jsonrpc |-> FALSE, code |-> 0, message |-> message,
   id |-> Undefined, result |-> result]

NoResponse == PlainResponse(0, "", NoResult)

\* body?.field and body.field, for the bodies express.json() lets through
Field_(body, field) ==
  IF body.kind = "object" THEN body[field] ELSE Undefined

(***************************************************************************)
(* app.use(express.json({limit: '10mb'})): strict mode accepts a JSON text *)
(* that is an object or an array, leaves req.body undefined when the       *)
(* request has no JSON body, and passes a SyntaxError to next() otherwise. *)
(* (Express 4 sets req.body to {} where Express 5 leaves it undefined; a   *)
(* request with the body {} behaves as that one does.)                     *)
(***************************************************************************)
expressJson(body) ==
  CASE body.kind = "malformed" -> [error |-> TRUE, body |-> body]
    [] body.kind = "none" ->
         [error |-> FALSE, body |-> Body("undefined", Undefined, Undefined, Undefined, Undefined)]
    [] OTHER -> [error |-> FALSE, body |-> body]

PassOn == PlainResponse(-1, "next()", NoResult)

(***************************************************************************)
(* authMiddleware                                                          *)
(***************************************************************************)
\* authMiddleware with `if (providedKey && providedKey !== SECRET_KEY)` only
authMiddleware_MissingKeyPasses(requireAuth, secretKey, req, body) ==
  IF ~requireAuth \/ Falsy(secretKey) THEN PassOn
  ELSE IF req.path = "/mcp" /\ req.verb = "POST"
          /\ Field_(body, "method") = "tools/call"
          /\ ~Falsy(req.secretKey) /\ req.secretKey # secretKey
  THEN JsonRpcError(401, -32001, "Invalid authentication for tool execution",
                    Field_(body, "id"))
  ELSE PassOn

\* authMiddleware asking for the key on every method but initialize
authMiddleware_GateAllButInitialize(requireAuth, secretKey, req, body) ==
  IF ~requireAuth \/ Falsy(secretKey) THEN PassOn
  ELSE IF req.path = "/mcp" /\ req.verb = "POST"
          /\ Field_(body, "method") # "initialize"
          /\ req.secretKey # secretKey
  THEN JsonRpcError(401, -32001, "Authentication required for tool execution",
                    Field_(body, "id"))
  ELSE PassOn

\* authMiddleware without the `if (!SECRET_KEY)` skip
authMiddleware_EmptySecretChecked(requireAuth, secretKey, req, body) ==
  IF ~requireAuth THEN PassOn
  ELSE IF req.path = "/mcp" /\ req.verb = "POST"
          /\ Field_(body, "method") = "tools/call"
          /\ (Falsy(req.secretKey) \/ req.secretKey # secretKey)
  THEN JsonRpcError(401, -32001, "Authentication required for tool execution",
                    Field_(body, "id"))
  ELSE PassOn

authMiddleware(requireAuth, secretKey, req, body) ==
  IF ~requireAuth THEN PassOn
  ELSE IF Falsy(secretKey) THEN PassOn
  ELSE IF req.path = "/mcp" /\ req.verb = "POST"
  THEN LET method == Field_(body, "method")
           providedKey == req.secretKey
       IN IF method = "tools/call"
          THEN IF Falsy(providedKey)
               THEN JsonRpcError(401, -32001, "Authentication required for tool execution",
                                 Field_(body, "id"))
               ELSE IF providedKey # secretKey
               THEN JsonRpcError(401, -32001, "Invalid authentication for tool execution",
                                 Field_(body, "id"))
               ELSE PassOn
          ELSE PassOn
  ELSE PassOn

(***************************************************************************)
(* getToolDefinitions                                                      *)
(***************************************************************************)
\* the projection without the test `'description' in value`
ToolDefinition_KeepsAll(tool) ==
  LET properties == [i \in 1..Len(tool.schema) |->
                       [key |-> tool.schema[i].key, type |-> "string",
                        description |-> tool.schema[i].description]]
      required == [i \in 1..Len(tool.schema) |-> tool.schema[i].key]
  IN [name |-> tool.name, description |-> tool.description,
      inputSchema |-> [type |-> "object", properties |-> properties,
                       required |-> IF Len(required) > 0 THEN required ELSE <<>>,
                       hasRequired |-> Len(required) > 0]]

\* the replaced tempServer.tool: the definition pushed for one registration
ToolDefinition(tool) ==
  LET described == SelectSeq(tool.schema, LAMBDA f : f.described)
      properties == [i \in 1..Len(described) |->
                       [key |-> described[i].key, type |-> "string",
                        description |-> described[i].description]]
      required == [i \in 1..Len(described) |-> described[i].key]
  IN [name |-> tool.name, description |-> tool.description,
      inputSchema |-> [type |-> "object", properties |-> properties,
                       required |-> IF Len(required) > 0 THEN required ELSE <<>>,
                       hasRequired |-> Len(required) > 0]]

\* getToolDefinitions registering the sheet tools with the deletion tools
\* whatever its argument
getToolDefinitions_DeleteListed(allowDeleteTools) ==
  LET sweep == RegistrationSweep(TRUE)
  IN [i \in 1..Len(sweep) |-> ToolDefinition(sweep[i])]

getToolDefinitions(allowDeleteTools) ==
  LET sweep == RegistrationSweep(allowDeleteTools)
  IN [i \in 1..Len(sweep) |-> ToolDefinition(sweep[i])]

\* const dummyApi = new SmartsheetAPI('', '', true): the client the
\* registration functions are given; it is no client of the pool
dummyApi == SmartsheetAPI(0, "", "")

\* getToolDefinitions taking its client from getApiInstance('', '')
Extraction_ThroughPool(instances, n, allowDeleteTools) ==
  LET got == getApiInstance(instances, n, "", "")
  IN [tools |-> getToolDefinitions(allowDeleteTools), instances |-> got.instances,
      constructed |-> IF got.built THEN n + 1 ELSE n, invoked |-> <<>>]

\* A call of getToolDefinitions with its effects: the definitions returned,
\* the pool and the number of pool clients afterwards, and the handlers
\* invoked (the replaced tool() keeps the definition and drops the handler).
Extraction(instances, n, allowDeleteTools) ==
  [tools |-> getToolDefinitions(allowDeleteTools), instances |-> instances,
   constructed |-> n, invoked |-> <<>>]

(***************************************************************************)
(* executeToolCall, up to `return await toolResult`.                       *)
(*                                                                         *)
(* What a handler does when it is called belongs to the tool modules and   *)
(* to the Smartsheet service: it returns a promise ("returns"), or throws  *)
(* an Error or a nullish value before returning.  `sync` is that choice.   *)
(***************************************************************************)
Thrown(nullish, message) == [nullish |-> nullish, message |-> message]

NothingThrown == Thrown(FALSE, "")

SyncBehaviours == {"returns", "throws", "throwsNullish"}

HandlerFailure == "Smartsheet API request failed"

Invocation(tool, arguments, api) ==
  [tool |-> tool, arguments |-> arguments, api |-> api]

\* the sweep calling every handler, without `if (name === toolName)`
Matching_IgnoresName(sweep, toolName) == sweep

\* the registrations for which `name === toolName`, in sweep order
Matching(sweep, toolName) ==
  SelectSeq(sweep, LAMBDA t : t.name = toolName)

\* executeToolCall asking the pool for a client only once the tool is found
executeToolCall_LookupFirst(instances, n, apiKey, apiEndpoint, allowDeleteTools, toolName, toolArguments, sync) ==
  LET sweep == RegistrationSweep(allowDeleteTools)
      matches == Matching(sweep, toolName)
      got == IF Len(matches) = 0
             THEN [instances |-> instances, api |-> SmartsheetAPI(0, "", ""),
                   built |-> FALSE, evicted |-> <<>>]
             ELSE getApiInstance(instances, n, apiKey, apiEndpoint)
      threw == Len(matches) > 0 /\ sync # "returns"
      ran == IF threw THEN 1 ELSE Len(matches)
  IN [got |-> got,
      invoked |-> [i \in 1..ran |-> Invocation(matches[i].name, toolArguments, got.api)],
      outcome |-> IF Len(matches) = 0 THEN "notfound"
                  ELSE IF threw THEN "threw" ELSE "awaits",
      thrown |-> IF Len(matches) = 0
                 THEN Thrown(FALSE, "Tool not found: " \o ToStr(toolName))
                 ELSE IF sync = "throws" THEN Thrown(FALSE, HandlerFailure)
                 ELSE IF sync = "throwsNullish" THEN Thrown(TRUE, "")
                 ELSE NothingThrown]

executeToolCall(instances, n, apiKey, apiEndpoint, allowDeleteTools, toolName, toolArguments, sync) ==
  LET got == getApiInstance(instances, n, apiKey, apiEndpoint)
      sweep == RegistrationSweep(allowDeleteTools)
      matches == Matching(sweep, toolName)
      threw == Len(matches) > 0 /\ sync # "returns"
      \* a handler that throws ends the sweep at the first match
      ran == IF threw THEN 1 ELSE Len(matches)
  IN [got |-> got,
      invoked |-> [i \in 1..ran |-> Invocation(matches[i].name, toolArguments, got.api)],
      outcome |-> IF Len(matches) = 0 THEN "notfound"
                  ELSE IF threw THEN "threw" ELSE "awaits",
      thrown |-> IF Len(matches) = 0
                 THEN Thrown(FALSE, "Tool not found: " \o ToStr(toolName))
                 ELSE IF sync = "throws" THEN Thrown(FALSE, HandlerFailure)
                 ELSE IF sync = "throwsNullish" THEN Thrown(TRUE, "")
                 ELSE NothingThrown]

(***************************************************************************)
(* app.post('/mcp')                                                        *)
(***************************************************************************)
NoApi == SmartsheetAPI(0, "", "")

\* what the suspended handler keeps: requestId, toolName and the promise of
\* the call handler(toolArguments) made with the client `api`
Call(requestId, toolName, toolArguments, api) ==
  [active |-> TRUE, requestId |-> requestId, toolName |-> toolName,
   toolArguments |-> toolArguments, api |-> api]

NoCall ==
  [active |-> FALSE, requestId |-> Undefined, toolName |-> Undefined,
   toolArguments |-> Undefined, api |-> NoApi]

\* The outcome of serving a request up to its response or its first suspension.
Served(res, instances, n, invoked, call, built, evicted, thrown) ==
  [res |-> res, instances |-> instances, constructed |-> n, invoked |-> invoked,
   call |-> call, built |-> built, evicted |-> evicted, thrown |-> thrown]

Respond(res, instances, n) ==
  Served(res, instances, n, <<>>, NoCall, FALSE, <<>>, NothingThrown)

NullishMessage == "Cannot read properties of undefined (reading 'message')"

\* the outer catch: id: req.body?.id || null
OuterCatch_Status500(message, requestId) ==
  JsonRpcError(500, -32603, "Internal error: " \o message, OrElse(requestId, Null))

OuterCatch(message, requestId) ==
  JsonRpcError(200, -32603, "Internal error: " \o message, OrElse(requestId, Null))

\* the catch around executeToolCall; reading error.message of a nullish
\* value throws a TypeError, which the outer catch receives
InnerCatch_Rethrow(thrown, requestId) ==
  IF thrown.nullish
  THEN NoResponse
  ELSE JsonRpcError(200, -32603, "Tool execution error: " \o thrown.message, requestId)

InnerCatch(thrown, requestId) ==
  IF thrown.nullish
  THEN OuterCatch(NullishMessage, requestId)
  ELSE JsonRpcError(200, -32603, "Tool execution error: " \o thrown.message, requestId)

\* if (!apiKey)
MissingApiKey_Never(apiKey) == FALSE

MissingApiKey(apiKey) == Falsy(apiKey)

\* !body, for a parsed body
FalsyBody(body) == body.kind \in {"undefined", "null"}

\* typeof body === 'object'
TypeofObject(body) == body.kind \in {"object", "array", "null"}

\* version of ../package.json, read once when the module is loaded
PackageVersion == "packageJson.version"

\* the result of initialize announcing prompts as an empty capability
InitializeResult_PromptsObject ==
  ServerSelf("2024-11-05", EmptyObject, EmptyObject, Null, "smartsheet", PackageVersion)

\* const result = {protocolVersion, capabilities, serverInfo}
InitializeResult ==
  ServerSelf("2024-11-05", EmptyObject, Null, Null, "smartsheet", PackageVersion)

mcpHandler(instances, n, req, body, sync) ==
  \* if (!body || typeof body !== 'object')
  IF FalsyBody(body) \/ ~TypeofObject(body)
  THEN Respond(JsonRpcError(200, -32700, "Parse error: Invalid JSON", Null), instances, n)
  ELSE
    LET method == Field_(body, "method")
        requestId == Field_(body, "id")
    IN CASE method = "initialize" ->
              Respond(JsonRpcResult([NoResult EXCEPT !.kind = "initialize",
                                                     !.self = InitializeResult],
                                    requestId), instances, n)
         [] method = "tools/list" ->
              LET listing == Extraction(instances, n, req.allowDelete = "true")
              IN Served(JsonRpcResult([NoResult EXCEPT !.kind = "tools",
                                                       !.tools = listing.tools],
                                      requestId),
                        listing.instances, listing.constructed, listing.invoked,
                        NoCall, FALSE, <<>>, NothingThrown)
         [] method = "tools/call" ->
              LET apiKey == req.apiKey
                  apiEndpoint == req.endpoint
                  allowDeleteTools == req.allowDelete = "true"
              IN IF MissingApiKey(apiKey)
                 THEN Respond(JsonRpcError(200, -32602,
                                "Missing required header: x-smartsheet-api-key", requestId),
                              instances, n)
                 ELSE
                   LET toolName == Field_(body, "name")
                       toolArguments == OrElse(Field_(body, "arguments"), EmptyObject)
                       run == executeToolCall(instances, n, apiKey, apiEndpoint,
                                              allowDeleteTools, toolName, toolArguments, sync)
                       built == IF run.got.built THEN n + 1 ELSE n
                   IN IF run.outcome = "awaits"
                      THEN Served(NoResponse, run.got.instances, built, run.invoked,
                                  Call(requestId, toolName, toolArguments, run.got.api),
                                  run.got.built, run.got.evicted, NothingThrown)
                      ELSE Served(InnerCatch(run.thrown, requestId), run.got.instances,
                                  built, run.invoked, NoCall, run.got.built, run.got.evicted,
                                  run.thrown)
         [] OTHER ->
              Respond(JsonRpcError(200, -32601, "Method not found: " \o ToStr(method),
                                   requestId), instances, n)

\* the handler resuming when the awaited promise settles
Settlement(kind, value, thrown) == [kind |-> kind, value |-> value, thrown |-> thrown]

Settlements ==
  { Settlement("resolve", "{content: sheet rows}", NothingThrown),
    Settlement("resolve", "{content: not found, isError: true}", NothingThrown),
    Settlement("reject", Undefined, Thrown(FALSE, HandlerFailure)),
    Settlement("reject", Undefined, Thrown(TRUE, "")) }

\* the handler wrapping the value into a result of its own
mcpResume_Wrapped(call, settlement) ==
  IF settlement.kind = "resolve"
  THEN JsonRpcResult([NoResult EXCEPT
                        !.kind = "value",
                        !.value = "{content: " \o settlement.value \o "}"],
                     call.requestId)
  ELSE InnerCatch(settlement.thrown, call.requestId)

mcpResume(call, settlement) ==
  IF settlement.kind = "resolve"
  THEN JsonRpcResult([NoResult EXCEPT !.kind = "value", !.value = settlement.value],
                     call.requestId)
  ELSE InnerCatch(settlement.thrown, call.requestId)

(***************************************************************************)
(* The application: middleware in the order of app.use, then the routes.   *)
(* Express matches a route path without regard to letter case and to a     *)
(* trailing slash (the defaults of "case sensitive routing" and "strict    *)
(* routing"); req.path is the path as the client wrote it.                 *)
(***************************************************************************)
RoutePath(path) ==
  CASE path \in {"/mcp", "/mcp/", "/MCP"} -> "/mcp"
    [] path \in {"/tools", "/tools/", "/TOOLS"} -> "/tools"
    [] path \in {"/health", "/health/"} -> "/health"
    [] OTHER -> path

errorHandler(message) == PlainResponse(500, "Internal Server Error", NoResult)

notFoundHandler(req) == PlainResponse(404, "Not Found", NoResult)

toolsHandler(instances, n) ==
  LET listing == Extraction(instances, n, FALSE)
  IN Served(PlainResponse(200, "", [NoResult EXCEPT !.kind = "tools",
                                                    !.tools = listing.tools]),
            listing.instances, listing.constructed, listing.invoked,
            NoCall, FALSE, <<>>, NothingThrown)

healthHandler == PlainResponse(200, "healthy", NoResult)

Serve(requireAuth, secretKey, instances, n, req, sync) ==
  LET parsed == expressJson(req.body)
      gate == authMiddleware(requireAuth, secretKey, req, parsed.body)
  IN IF parsed.error THEN Respond(errorHandler("SyntaxError"), instances, n)
     ELSE IF gate # PassOn THEN Respond(gate, instances, n)
     ELSE IF req.verb = "GET" /\ RoutePath(req.path) = "/health"
     THEN Respond(healthHandler, instances, n)
     ELSE IF req.verb = "GET" /\ RoutePath(req.path) = "/tools"
     THEN toolsHandler(instances, n)
     ELSE IF req.verb = "POST" /\ RoutePath(req.path) = "/mcp"
     THEN mcpHandler(instances, n, req, parsed.body, sync)
     ELSE Respond(notFoundHandler(req), instances, n)

(***************************************************************************)
(* The requests the model sends.                                           *)
(***************************************************************************)
McpPaths == {"/mcp", "/mcp/", "/MCP"}

SecretHeaders == {Undefined, "s3cret", "wrong"}

Secrets == {"", "s3cret"}

Ids == {Undefined, Null, NumZero, "", NumSeven}

Methods == {"initialize", "tools/list", "tools/call", "ping", Undefined}

ToolNamesAsked == {Undefined, "get_sheet", "delete_rows", "nonexistent_tool"}

NoBody == Body("none", Undefined, Undefined, Undefined, Undefined)

ObjectBody(method, id, name, arguments) == Body("object", method, id, name, arguments)

\* every kind of body and every method, with one id and one tool
GateBodies ==
  { Body(k, Undefined, Undefined, Undefined, Undefined) : k \in {"malformed", "none", "array"} }
  \cup { ObjectBody(m, NumSeven, Undefined, Undefined) : m \in Methods \ {"tools/call"} }
  \cup { ObjectBody("tools/call", NumSeven, name, Undefined) :
           name \in {Undefined, "get_sheet", "nonexistent_tool"} }

\* every id with every method
IdBodies ==
  { ObjectBody(m, id, IF m = "tools/call" THEN "get_sheet" ELSE Undefined, Undefined) :
      m \in Methods, id \in Ids }

\* params.arguments: absent, an object, and the falsy values null and 0
ArgumentsSent == {Undefined, "{sheetId: 42}", Null, NumZero}

\* every tool name, with and without arguments, and the catalogue
ToolBodies ==
  { ObjectBody("tools/call", NumSeven, name, arguments) :
      name \in ToolNamesAsked, arguments \in ArgumentsSent }
  \cup { ObjectBody("tools/list", NumSeven, Undefined, Undefined) }

RouterRequests ==
  { Request("POST", path, secret, apiKey, Undefined, Undefined, body) :
      path \in McpPaths, secret \in SecretHeaders, apiKey \in {Undefined, "k"},
      body \in GateBodies }
  \cup { Request("POST", "/mcp", secret, apiKey, Undefined, Undefined, body) :
           secret \in SecretHeaders, apiKey \in {Undefined, "k"}, body \in IdBodies }
  \cup { Request("POST", "/mcp", secret, "k", Undefined, allow, body) :
           secret \in {Undefined, "s3cret"}, allow \in {Undefined, "true", "yes"},
           body \in ToolBodies }
  \cup { Request("GET", path, Undefined, Undefined, Undefined, Undefined, NoBody) :
           path \in {"/tools", "/health", "/nowhere"} }

(***************************************************************************)
(* The state machine.  Node runs one synchronous section at a time: the    *)
(* middleware chain with the route handler up to its response or its first *)
(* await (Receive), and the resumption of a suspended handler (Settle).    *)
(* `exchange` follows one section at a time, from the request to what the  *)
(* section did; Done ends the observation ('finish' of the response, or    *)
(* the end of the turn that left the handler suspended).                   *)
(***************************************************************************)
NoRequest == Request("", "", Undefined, Undefined, Undefined, Undefined, NoBody)

\* no promise settled in the section
NoSettlement == Settlement("none", Undefined, NothingThrown)

\* an exception thrown in the section, before any await
ThrownInSection(thrown) ==
  IF thrown = NothingThrown THEN NoSettlement ELSE Settlement("threw", Undefined, thrown)

Exchange(stage, req, served, outcome) ==
  [stage |-> stage, req |-> req, res |-> served.res, invoked |-> served.invoked,
   call |-> served.call, built |-> served.built, evicted |-> served.evicted,
   outcome |-> outcome]

Idle == Exchange("idle", NoRequest, Respond(NoResponse, <<>>, 0), NoSettlement)

\* A call of the replaced tool() of getToolDefinitions, followed on its own:
\* the tool it is given and, once it has run, the definition it pushed.
Registration(stage, tool, definition) ==
  [stage |-> stage, tool |-> tool, definition |-> definition]

NoRegistration ==
  Registration("none", ToolNoSchema("", ""), ToolDefinition(ToolNoSchema("", "")))

Init ==
  /\ REQUIRE_AUTH \in BOOLEAN
  /\ SECRET_KEY \in Secrets
  /\ apiInstances = <<>>
  /\ constructed = 0
  /\ inflight = EmptyBag
  /\ exchange = Idle
  /\ registration = NoRegistration

\* a server that takes a request only when no handler is pending
Receive_Serial(req, sync) ==
  LET served == Serve(REQUIRE_AUTH, SECRET_KEY, apiInstances, constructed, req, sync)
  IN /\ exchange.stage = "idle"
     /\ inflight = EmptyBag
     /\ apiInstances' = served.instances
     /\ constructed' = served.constructed
     /\ inflight' = IF served.call.active
                    THEN inflight (+) SetToBag({served.call})
                    ELSE inflight
     /\ exchange' = Exchange(IF served.call.active THEN "awaiting" ELSE "responded",
                             req, served, ThrownInSection(served.thrown))
     /\ UNCHANGED <<registration, REQUIRE_AUTH, SECRET_KEY>>

\* A request arrives and is served up to its response, or up to the await
\* of the handler's promise.
Receive(req, sync) ==
  LET served == Serve(REQUIRE_AUTH, SECRET_KEY, apiInstances, constructed, req, sync)
  IN /\ exchange.stage = "idle"
     /\ served.call.active => BagCardinality(inflight) < MaxInflight
     /\ apiInstances' = served.instances
     /\ constructed' = served.constructed
     /\ inflight' = IF served.call.active
                    THEN inflight (+) SetToBag({served.call})
                    ELSE inflight
     /\ exchange' = Exchange(IF served.call.active THEN "awaiting" ELSE "responded",
                             req, served, ThrownInSection(served.thrown))
     /\ UNCHANGED <<registration, REQUIRE_AUTH, SECRET_KEY>>

\* a settlement answered without the call ceasing to be pending
Settle_KeepsCall(call, settlement) ==
  /\ exchange.stage = "idle"
  /\ BagIn(call, inflight)
  /\ inflight' = inflight
  /\ exchange' = [Exchange("settled", NoRequest,
                           Respond(mcpResume(call, settlement), <<>>, 0), settlement)
                    EXCEPT !.call = call]
  /\ UNCHANGED <<registration, REQUIRE_AUTH, SECRET_KEY, apiInstances, constructed>>

\* the resumed handler answering with the requestId of a call still pending
Settle_SharedRequestId(call, settlement) ==
  LET others == BagToSet(inflight (-) SetToBag({call}))
      answered == IF others = {} THEN call
                  ELSE [call EXCEPT !.requestId = (CHOOSE c \in others : TRUE).requestId]
  IN /\ exchange.stage = "idle"
     /\ BagIn(call, inflight)
     /\ inflight' = inflight (-) SetToBag({call})
     /\ exchange' = [Exchange("settled", NoRequest,
                              Respond(mcpResume(answered, settlement), <<>>, 0), settlement)
                       EXCEPT !.call = call]
     /\ UNCHANGED <<registration, REQUIRE_AUTH, SECRET_KEY, apiInstances, constructed>>

\* The promise a suspended tools/call awaits settles; the handler resumes
\* and responds.
Settle(call, settlement) ==
  /\ exchange.stage = "idle"
  /\ BagIn(call, inflight)
  /\ inflight' = inflight (-) SetToBag({call})
  /\ exchange' = [Exchange("settled", NoRequest,
                           Respond(mcpResume(call, settlement), <<>>, 0), settlement)
                    EXCEPT !.call = call]
  /\ UNCHANGED <<registration, REQUIRE_AUTH, SECRET_KEY, apiInstances, constructed>>

Done ==
  /\ exchange.stage # "idle"
  /\ exchange' = Idle
  /\ UNCHANGED <<registration, REQUIRE_AUTH, SECRET_KEY, apiInstances, constructed, inflight>>

\* the handler's behaviour is a choice only where a handler can be called
SyncChoices(req) ==
  IF req.body.method = "tools/call" /\ req.body.name # Undefined
  THEN SyncBehaviours ELSE {"returns"}

Next ==
  \/ \E req \in RouterRequests : \E sync \in SyncChoices(req) : Receive(req, sync)
  \/ \E call \in BagToSet(inflight), settlement \in Settlements : Settle(call, settlement)
  \/ Done

Spec == Init /\ [][Next]_vars

(***************************************************************************)
(* A pool that has been in use: the credential "k" was served first, then  *)
(* WarmStrangers one-off credentials, each by one tools/call that has      *)
(* completed.  SpecWarm starts there, one entry below the limit when       *)
(* WarmStrangers is 98.                                                    *)
(***************************************************************************)
Stranger(i) == "caller-" \o ToString(i)

WarmPool ==
  << [key |-> CredentialKey("k", Undefined), api |-> SmartsheetAPI(1, "k", DefaultEndpoint)] >>
  \o [i \in 1..WarmStrangers |->
        [key |-> CredentialKey(Stranger(i), Undefined),
         api |-> SmartsheetAPI(i + 1, Stranger(i), DefaultEndpoint)]]

InitWarm ==
  /\ REQUIRE_AUTH \in BOOLEAN
  /\ SECRET_KEY \in Secrets
  /\ apiInstances = WarmPool
  /\ constructed = WarmStrangers + 1
  /\ inflight = EmptyBag
  /\ exchange = Idle
  /\ registration = NoRegistration

ApiKeys == {"k", "k:e"}

Endpoints == {Undefined, "default", "e:default"}

PoolRequests ==
  { Request("POST", "/mcp", "s3cret", apiKey, endpoint, Undefined,
            ObjectBody("tools/call", NumSeven, name, Undefined)) :
      apiKey \in ApiKeys, endpoint \in Endpoints,
      name \in {"get_sheet", "nonexistent_tool"} }
  \cup { Request("POST", "/mcp", secret, apiKey, Undefined, Undefined,
                 ObjectBody(method, NumSeven, "get_sheet", Undefined)) :
           secret \in {Undefined, "wrong"}, apiKey \in {Undefined, "k:e"},
           method \in {"initialize", "tools/list", "tools/call"} }
  \cup { Request("GET", "/tools", Undefined, Undefined, Undefined, Undefined, NoBody) }
  \cup { Request("POST", "/mcp", "s3cret", "k:e", Undefined, Undefined,
                 ObjectBody("tools/call", NumZero, "get_folder", "{folderId: 9}")) }

NextWarm ==
  \/ \E req \in PoolRequests : \E sync \in SyncChoices(req) : Receive(req, sync)
  \/ \E call \in BagToSet(inflight), settlement \in Settlements : Settle(call, settlement)
  \/ Done

SpecWarm == InitWarm /\ [][NextWarm]_vars

(***************************************************************************)
(* The replaced tool() of getToolDefinitions on its own: a registration    *)
(* function calls it with a tool whose schema has up to MaxFields fields,  *)
(* each exposing a description attribute or not, and it pushes the         *)
(* definition.  SpecProjection starts with the call made and lets it run.  *)
(***************************************************************************)
FieldKeys == {"sheetId", "include", "rowIds"}

\* a field value with a description, one whose description is undefined,
\* and one without the attribute
FieldsOf(key) ==
  { Field(key, TRUE, "The " \o key), Field(key, TRUE, Undefined), Field(key, FALSE, "") }

\* the schemas of n fields, the keys of an object being distinct
SchemasOfLength(n) ==
  { schema \in [1..n -> UNION { FieldsOf(key) : key \in FieldKeys }] :
      \A i, j \in 1..n : i # j => schema[i].key # schema[j].key }

ToolsRegistered ==
  { ToolNoSchema("get_current_user", "Get the current user") }
  \cup { Tool("get_sheet", "Get a sheet", schema) :
           schema \in UNION { SchemasOfLength(n) : n \in 0..MaxFields } }

InitProjection ==
  /\ REQUIRE_AUTH \in BOOLEAN
  /\ SECRET_KEY \in Secrets
  /\ apiInstances = <<>>
  /\ constructed = 0
  /\ inflight = EmptyBag
  /\ exchange = Idle
  /\ registration \in { Registration("called", tool, NoRegistration.definition) :
                           tool \in ToolsRegistered }

\* tools.push({ name, description, inputSchema })
Push ==
  /\ registration.stage = "called"
  /\ registration' = Registration("pushed", registration.tool,
                                   ToolDefinition(registration.tool))
  /\ UNCHANGED <<REQUIRE_AUTH, SECRET_KEY, apiInstances, constructed, inflight, exchange>>

NextProjection == Push

SpecProjection == InitProjection /\ [][NextProjection]_vars

(***************************************************************************)
(* Vocabulary of the properties.                                           *)
(***************************************************************************)
\* the request of the exchange has been served by Receive
Served_ == exchange.stage \in {"responded", "awaiting"}

\* authentication is in force
GateOn == REQUIRE_AUTH /\ SECRET_KEY # ""

\* the request is a POST that Express routes to app.post('/mcp')
ToMcp(req) == req.verb = "POST" /\ RoutePath(req.path) = "/mcp"

\* the request carries a JSON object whose method is m
Asks(req, m) == req.body.kind = "object" /\ req.body.method = m

\* the x-secret-key header is missing or is not SECRET_KEY
BadSecret(req) == req.secretKey # SECRET_KEY

\* the response is a JSON-RPC error with this code
IsError(res, code) == res.jsonrpc /\ res.code = code

\* the cache holds an entry it did not hold before the exchange
EntryCreated == exchange.built

(***************************************************************************)
(* C1: in every reachable state the pool of API clients holds at most 100  *)
(* entries, whatever initialize, tools/list, tools/call and GET /tools     *)
(* requests have been served and are in flight.                            *)
(***************************************************************************)
C1_PoolAtMostLimit == Len(apiInstances) <= 100

\* the pool is full and the request just served made it evict an entry
C1_Witness ==
  /\ Len(apiInstances) = 100
  /\ exchange.built
  /\ exchange.evicted # <<>>

(***************************************************************************)
(* C2: with REQUIRE_AUTH true and SECRET_KEY non-empty, a POST /mcp        *)
(* request (path /mcp as written) with method tools/call whose             *)
(* x-secret-key is missing or differs from SECRET_KEY is answered with     *)
(* HTTP 401 and JSON-RPC error -32001.                                     *)
(***************************************************************************)
C2_BadSecretRejected ==
  ( /\ Served_
    /\ GateOn
    /\ exchange.req.verb = "POST" /\ exchange.req.path = "/mcp"
    /\ Asks(exchange.req, "tools/call")
    /\ BadSecret(exchange.req) )
  => /\ exchange.stage = "responded"
     /\ exchange.res.status = 401
     /\ IsError(exchange.res, -32001)

C2_Witness ==
  /\ exchange.stage = "responded"
  /\ GateOn
  /\ exchange.req.verb = "POST" /\ exchange.req.path = "/mcp"
  /\ Asks(exchange.req, "tools/call")
  /\ exchange.req.secretKey = "wrong"
  /\ exchange.req.apiKey = "k"
  /\ exchange.res.status = 401

(***************************************************************************)
(* C3: with REQUIRE_AUTH true and SECRET_KEY non-empty, no tool handler is *)
(* invoked and no cache entry is created for a request whose x-secret-key  *)
(* is not SECRET_KEY, for every request Express routes to the POST /mcp    *)
(* handler, however its path is spelled.                                   *)
(***************************************************************************)
C3_NoExecutionWithoutSecret ==
  ( /\ Served_
    /\ GateOn
    /\ ToMcp(exchange.req)
    /\ BadSecret(exchange.req) )
  => /\ exchange.invoked = <<>>
     /\ ~EntryCreated

(***************************************************************************)
(* C4: a tools/call request without the x-smartsheet-api-key header is     *)
(* answered with JSON-RPC error -32602 and creates no cache entry, in      *)
(* every auth configuration and with any x-secret-key.                     *)
(***************************************************************************)
C4_MissingApiKeyAlwaysInvalidParams ==
  ( /\ Served_
    /\ ToMcp(exchange.req)
    /\ Asks(exchange.req, "tools/call")
    /\ Falsy(exchange.req.apiKey) )
  => /\ exchange.stage = "responded"
     /\ IsError(exchange.res, -32602)
     /\ ~EntryCreated

\* the auth middleware answers the request itself
GateRejects(req) ==
  /\ GateOn
  /\ req.verb = "POST" /\ req.path = "/mcp"
  /\ Asks(req, "tools/call")
  /\ BadSecret(req)

\* C4 as amended: such a request is answered -32602 unless the auth
\* middleware rejects it first (then 401 / -32001); either way no cache
\* entry is created and no handler is invoked.
C4_MissingApiKeyAmended ==
  ( /\ Served_
    /\ ToMcp(exchange.req)
    /\ Asks(exchange.req, "tools/call")
    /\ Falsy(exchange.req.apiKey) )
  => /\ exchange.stage = "responded"
     /\ IF GateRejects(exchange.req)
        THEN exchange.res.status = 401 /\ IsError(exchange.res, -32001)
        ELSE exchange.res.status = 200 /\ IsError(exchange.res, -32602)
     /\ ~EntryCreated
     /\ exchange.invoked = <<>>

C4_Witness ==
  /\ exchange.stage = "responded"
  /\ GateOn
  /\ ToMcp(exchange.req)
  /\ Asks(exchange.req, "tools/call")
  /\ Falsy(exchange.req.apiKey)
  /\ exchange.req.secretKey = SECRET_KEY
  /\ IsError(exchange.res, -32602)

(***************************************************************************)
(* C5: the response to an initialize or tools/list request, HTTP status    *)
(* and JSON-RPC body, is the same whatever the x-secret-key and            *)
(* x-smartsheet-api-key headers and whatever REQUIRE_AUTH and SECRET_KEY;  *)
(* it is a success and never a 401.                                        *)
(***************************************************************************)
C5_DiscoveryIgnoresCredentials ==
  ( /\ exchange.stage = "responded"
    /\ ToMcp(exchange.req)
    /\ Asks(exchange.req, "initialize") \/ Asks(exchange.req, "tools/list") )
  => /\ exchange.res.status = 200
     /\ exchange.res.jsonrpc /\ exchange.res.code = 0
     /\ \A requireAuth \in BOOLEAN, secretKey \in Secrets :
          \A secret \in SecretHeaders, apiKey \in {Undefined} \cup ApiKeys :
            Serve(requireAuth, secretKey, apiInstances, constructed,
                  [exchange.req EXCEPT !.secretKey = secret, !.apiKey = apiKey],
                  "returns").res = exchange.res

C5_Witness ==
  /\ exchange.stage = "responded"
  /\ GateOn
  /\ exchange.req.path = "/mcp"
  /\ Asks(exchange.req, "tools/list")
  /\ exchange.req.secretKey = "wrong"
  /\ exchange.res.result.kind = "tools"

(***************************************************************************)
(* C6: every JSON-RPC response sent for a POST /mcp request whose body is  *)
(* a JSON object carries the id of that request verbatim, on every path,   *)
(* the outer catch of the router included.                                 *)
(***************************************************************************)
C6_IdEchoedVerbatim ==
  /\ ( /\ Served_
       /\ ToMcp(exchange.req)
       /\ exchange.req.body.kind = "object" )
     => /\ exchange.stage = "responded" /\ exchange.res.jsonrpc
           => exchange.res.id = exchange.req.body.id
        /\ exchange.stage = "awaiting"
           => exchange.call.requestId = exchange.req.body.id
  /\ exchange.stage = "settled" => exchange.res.id = exchange.call.requestId

(***************************************************************************)
(* C7: a tools/call that passes the auth gate and carries an API key, and  *)
(* whose params.name no tool module registers under the request's          *)
(* allowDeleteTools flag, is answered with error -32603 and the message    *)
(* 'Tool execution error: Tool not found: <name>'; no handler is invoked.  *)
(***************************************************************************)
RegisteredBy(module, name) == \E i \in 1..Len(module) : module[i].name = name

Registered(name, allowDeleteTools) ==
  \/ RegisteredBy(getDiscussionTools, name)
  \/ RegisteredBy(getFolderTools, name)
  \/ RegisteredBy(getSearchTools, name)
  \/ RegisteredBy(getSheetTools(allowDeleteTools), name)
  \/ RegisteredBy(getUpdateRequestTools, name)
  \/ RegisteredBy(getUserTools, name)
  \/ RegisteredBy(getWorkspaceTools, name)

C7_UnknownToolNotFound ==
  ( /\ Served_
    /\ ToMcp(exchange.req)
    /\ Asks(exchange.req, "tools/call")
    /\ ~GateRejects(exchange.req)
    /\ ~Falsy(exchange.req.apiKey)
    /\ ~Registered(exchange.req.body.name, exchange.req.allowDelete = "true") )
  => /\ exchange.stage = "responded"
     /\ exchange.res.status = 200
     /\ IsError(exchange.res, -32603)
     /\ exchange.res.message =
          "Tool execution error: Tool not found: " \o ToStr(exchange.req.body.name)
     /\ exchange.invoked = <<>>

\* a deletion tool asked for without the flag being exactly 'true'
C7_Witness ==
  /\ exchange.stage = "responded"
  /\ Asks(exchange.req, "tools/call")
  /\ exchange.req.body.name = "delete_rows"
  /\ exchange.req.allowDelete = "yes"
  /\ exchange.res.message = "Tool execution error: Tool not found: delete_rows"

(***************************************************************************)
(* C8: a POST /mcp request whose body is malformed JSON text is answered   *)
(* with the JSON-RPC envelope {jsonrpc: '2.0', error: {code: -32700}, id:  *)
(* null}.                                                                  *)
(***************************************************************************)
C8_MalformedJsonParseError ==
  ( /\ exchange.stage = "responded"
    /\ ToMcp(exchange.req)
    /\ exchange.req.body.kind = "malformed" )
  => /\ IsError(exchange.res, -32700)
     /\ exchange.res.id = Null

(***************************************************************************)
(* C9: whenever the parsed body that reaches the /mcp handler is not a     *)
(* JSON-RPC request object (absent, null, a primitive or an array) the     *)
(* router answers -32700 with id null and dispatches nothing.              *)
(***************************************************************************)
C9_NonObjectBodyParseError ==
  ( /\ Served_
    /\ ToMcp(exchange.req)
    /\ ~expressJson(exchange.req.body).error
    /\ expressJson(exchange.req.body).body.kind # "object" )
  => /\ exchange.stage = "responded"
     /\ IsError(exchange.res, -32700)
     /\ exchange.res.id = Null
     /\ exchange.invoked = <<>>
     /\ ~EntryCreated

(***************************************************************************)
(* C10: a POST /mcp request with an object body whose method is none of    *)
(* initialize, tools/list and tools/call (a missing method included) is    *)
(* answered with JSON-RPC error -32601, whatever the headers and the auth  *)
(* configuration.                                                          *)
(***************************************************************************)
C10_UnknownMethodNotFound ==
  ( /\ Served_
    /\ ToMcp(exchange.req)
    /\ exchange.req.body.kind = "object"
    /\ exchange.req.body.method \notin {"initialize", "tools/list", "tools/call"} )
  => /\ exchange.stage = "responded"
     /\ exchange.res.status = 200
     /\ IsError(exchange.res, -32601)

C10_Witness ==
  /\ exchange.stage = "responded"
  /\ GateOn
  /\ ToMcp(exchange.req)
  /\ exchange.req.body.kind = "object"
  /\ exchange.req.body.method = Undefined
  /\ exchange.req.secretKey = Undefined
  /\ exchange.res.message = "Method not found: undefined"

(***************************************************************************)
(* Vocabulary of the properties on failures.                               *)
(***************************************************************************)
\* the section met an exception: thrown by executeToolCall (no such tool),
\* thrown by a handler before it returned, or delivered by the rejection of
\* the awaited promise
Failed == exchange.outcome.kind \in {"threw", "reject"}

\* the exception the section met
Failure == exchange.outcome.thrown

C12_ErrorStatus ==
  exchange.stage # "idle" =>
    /\ exchange.res.status = 401 <=> IsError(exchange.res, -32001)
    /\ exchange.res.jsonrpc /\ exchange.res.code \in {-32700, -32601, -32602, -32603}
         => exchange.res.status = 200

\* the outer catch answering with status 200
C12_Witness ==
  /\ exchange.stage = "responded"
  /\ exchange.outcome.kind = "threw"
  /\ exchange.res = OuterCatch(NullishMessage, exchange.req.body.id)
  /\ exchange.res.status = 200

(***************************************************************************)
(* Vocabulary of the properties on the pool.  These are predicates on a    *)
(* step: the pool before is apiInstances, the pool after apiInstances'.    *)
(***************************************************************************)
\* the step serves a request
Receiving == exchange.stage = "idle" /\ exchange'.stage \in {"responded", "awaiting"}

\* the request is a tools/call that reaches getApiInstance
Gets(req) ==
  /\ ToMcp(req)
  /\ Asks(req, "tools/call")
  /\ ~GateRejects(req)
  /\ ~Falsy(req.apiKey)

\* the key a request asks the pool for
KeyOf(req) == CredentialKey(req.apiKey, req.endpoint)

\* the step is a get of a key the pool does not hold
GetOfAbsent == Receiving /\ Gets(exchange'.req) /\ KeyOf(exchange'.req) \notin Keys(apiInstances)

\* the step is a get of a key the pool holds
GetOfPresent == Receiving /\ Gets(exchange'.req) /\ KeyOf(exchange'.req) \in Keys(apiInstances)

\* the keys that leave the pool in the step
Leaving == Keys(apiInstances) \ Keys(apiInstances')

\* the entry whose client was built, hence inserted, before all the others
Oldest(instances) ==
  CHOOSE i \in 1..Len(instances) :
    \A j \in 1..Len(instances) : instances[i].api.n <= instances[j].api.n

HandedOut(ex) ==
  { ex.invoked[i].api : i \in 1..Len(ex.invoked) }
  \cup (IF ex.call.active THEN {ex.call.api} ELSE {})

Entries(instances) == { instances[i] : i \in 1..Len(instances) }

\* the client the pool holds under a key it holds
Stored(instances, key) == instances[MapGet(instances, key)].api

(***************************************************************************)
(* C15: a client is built only by a get of a key the pool does not hold,   *)
(* one client per such get, and it is the one stored and handed out; as    *)
(* long as a key stays in the pool the client under it stays the same and  *)
(* every get of the key hands out that client; and an entry leaves the     *)
(* pool only when such a get has filled the pool beyond its limit, never   *)
(* on a hit, on a handler's failure or settlement, or with time.           *)
(***************************************************************************)
C15_BuiltOnMissKeptUntilEvicted ==
  [][ /\ constructed' # constructed => GetOfAbsent
      /\ GetOfAbsent =>
            /\ constructed' = constructed + 1
            /\ Stored(apiInstances', KeyOf(exchange'.req)).n = constructed'
            /\ HandedOut(exchange') \subseteq {Stored(apiInstances', KeyOf(exchange'.req))}
      /\ apiInstances' # apiInstances =>
            LET keysAfter == Keys(apiInstances')
                entriesAfter == Entries(apiInstances')
            IN \A i \in 1..Len(apiInstances) :
                 apiInstances[i].key \in keysAfter => apiInstances[i] \in entriesAfter
      /\ GetOfPresent =>
            HandedOut(exchange') \subseteq {Stored(apiInstances, KeyOf(exchange'.req))}
      /\ Leaving # {} => GetOfAbsent /\ Len(apiInstances) = PoolLimit ]_vars

\* "k" was evicted and is asked for again: a second client is built for it
C15_Witness ==
  /\ exchange.stage = "awaiting"
  /\ exchange.built
  /\ KeyOf(exchange.req) = CredentialKey("k", Undefined)
  /\ exchange.call.api.n = constructed
  /\ constructed > WarmStrangers + 1
  /\ exchange.call.api = Stored(apiInstances, CredentialKey("k", Undefined))

(***************************************************************************)
(* C16: with REQUIRE_AUTH false, or REQUIRE_AUTH true and SECRET_KEY       *)
(* empty, no request is answered with HTTP 401 or with the code -32001,    *)
(* whatever its method and its x-secret-key header; a tools/call is        *)
(* decided by the router alone: -32602 and nothing executed when the API   *)
(* key is missing, and otherwise the tool is executed, which ends in the   *)
(* await of the handler's promise or in the error -32603.                  *)
(***************************************************************************)
C16_OpenGateRejectsNothing ==
  (Served_ /\ ~GateOn) =>
    /\ exchange.res.status # 401
    /\ ~IsError(exchange.res, -32001)
    /\ (ToMcp(exchange.req) /\ Asks(exchange.req, "tools/call")) =>
         IF Falsy(exchange.req.apiKey)
         THEN /\ IsError(exchange.res, -32602)
              /\ exchange.invoked = <<>>
              /\ ~exchange.built
         ELSE \/ exchange.stage = "awaiting"
              \/ exchange.outcome.kind = "threw" /\ IsError(exchange.res, -32603)

\* REQUIRE_AUTH is true, SECRET_KEY is empty: a tools/call without
\* x-secret-key, and one with a key that cannot match, are executed
C16_Witness ==
  /\ REQUIRE_AUTH /\ SECRET_KEY = ""
  /\ exchange.stage = "awaiting"
  /\ exchange.req.path = "/mcp"
  /\ exchange.req.secretKey \in {Undefined, "wrong"}
  /\ exchange.invoked # <<>>

\* the names a registration function registers, in the order of its calls
Names(module) == [i \in 1..Len(module) |-> module[i].name]

\* the names of the definitions of a tools/list result
Listed(res) == [i \in 1..Len(res.result.tools) |-> res.result.tools[i].name]

(***************************************************************************)
(* C17: tools/list answers with the same definitions in the same order     *)
(* whenever it is asked with the same x-allow-delete-tools value: whatever *)
(* has been served and is in flight, the definitions are those the server  *)
(* gives for that request before it has served anything, and they come in  *)
(* the order in which the seven modules are registered.                    *)
(***************************************************************************)
C17_ToolsListIdempotent ==
  ( /\ exchange.stage = "responded"
    /\ ToMcp(exchange.req)
    /\ Asks(exchange.req, "tools/list") )
  => /\ exchange.res.result.kind = "tools"
     /\ exchange.res.result.tools =
          Serve(REQUIRE_AUTH, SECRET_KEY, <<>>, 0, exchange.req, "returns").res.result.tools
     /\ Listed(exchange.res) =
          Names(getDiscussionTools) \o Names(getFolderTools) \o Names(getSearchTools)
            \o Names(getSheetTools(exchange.req.allowDelete = "true"))
            \o Names(getUpdateRequestTools) \o Names(getUserTools)
            \o Names(getWorkspaceTools)

\* the catalogue with the deletion tools, listed while tool calls are
\* pending and the pool holds a client
C17_Witness ==
  /\ exchange.stage = "responded"
  /\ Asks(exchange.req, "tools/list")
  /\ exchange.req.allowDelete = "true"
  /\ Len(exchange.res.result.tools) = 8
  /\ BagCardinality(inflight) = MaxInflight
  /\ apiInstances # <<>>

\* the exchange served a tools/call that reached the sweep with the name of
\* a tool the sweep registers
CallsRegisteredTool ==
  /\ Served_
  /\ Gets(exchange.req)
  /\ Registered(exchange.req.body.name, exchange.req.allowDelete = "true")

(***************************************************************************)
(* C18: a tools/call whose name is that of a registered tool invokes one   *)
(* handler, once: the handler of that tool, with the request's             *)
(* params.arguments, or with an empty object when params.arguments is      *)
(* absent.                                                                 *)
(***************************************************************************)
C18_OneHandlerWithArguments ==
  CallsRegisteredTool =>
    /\ Len(exchange.invoked) = 1
    /\ exchange.invoked[1].tool = exchange.req.body.name
    /\ exchange.invoked[1].arguments =
         IF exchange.req.body.arguments = Undefined
         THEN EmptyObject
         ELSE exchange.req.body.arguments

\* C18 as amended: the empty object also replaces a params.arguments that
\* is present and falsy (null, false, 0, the empty string).
C18_OneHandlerAmended ==
  CallsRegisteredTool =>
    /\ Len(exchange.invoked) = 1
    /\ exchange.invoked[1].tool = exchange.req.body.name
    /\ exchange.invoked[1].arguments =
         IF Falsy(exchange.req.body.arguments)
         THEN EmptyObject
         ELSE exchange.req.body.arguments

\* delete_rows, registered because the header allows it, called with
\* "arguments": null, runs with an empty object
C18_Witness ==
  /\ exchange.stage = "awaiting"
  /\ exchange.req.body.name = "delete_rows"
  /\ exchange.req.body.arguments = Null
  /\ Len(exchange.invoked) = 1
  /\ exchange.invoked[1] = Invocation("delete_rows", EmptyObject, exchange.call.api)

(***************************************************************************)
(* C19: when the promise of the matched handler resolves, the response of  *)
(* the tools/call is a JSON-RPC success with HTTP status 200 whose result  *)
(* is the value the promise resolved with, as it is, and whose id is the   *)
(* id of the request that made the call.                                   *)
(***************************************************************************)
C19_ResultRelayedUnchanged ==
  /\ exchange.stage = "awaiting" =>
        exchange.call.requestId = exchange.req.body.id
  /\ (exchange.stage = "settled" /\ exchange.outcome.kind = "resolve") =>
        /\ exchange.res.status = 200
        /\ exchange.res.jsonrpc /\ exchange.res.code = 0
        /\ exchange.res.result.kind = "value"
        /\ exchange.res.result.value = exchange.outcome.value
        /\ exchange.res.id = exchange.call.requestId

\* a result the tool itself flags as an error is relayed as a success, to
\* a request whose id was 0
C19_Witness ==
  /\ exchange.stage = "settled"
  /\ exchange.outcome.kind = "resolve"
  /\ exchange.call.requestId = NumZero
  /\ exchange.res = JsonRpcResult([NoResult EXCEPT
                                     !.kind = "value",
                                     !.value = "{content: not found, isError: true}"],
                                   NumZero)

\* the step serves an initialize request
Initializing ==
  /\ Receiving
  /\ ToMcp(exchange'.req)
  /\ Asks(exchange'.req, "initialize")

(***************************************************************************)
(* C20: an initialize request is answered with HTTP status 200 and a       *)
(* JSON-RPC success that carries the id of the request and the same result *)
(* every time - protocolVersion "2024-11-05", capabilities with tools      *)
(* present and prompts and resources null, serverInfo with the name        *)
(* smartsheet and the package version - whatever the headers, the pool and *)
(* the calls in flight; serving it changes neither the pool, nor the       *)
(* number of clients built, nor the calls in flight, and invokes nothing.  *)
(***************************************************************************)
C20_InitializeStatic ==
  [][ Initializing =>
        /\ exchange'.stage = "responded"
        /\ exchange'.res.status = 200
        /\ exchange'.res.jsonrpc /\ exchange'.res.code = 0
        /\ exchange'.res.id = exchange'.req.body.id
        /\ exchange'.res.result.kind = "initialize"
        /\ exchange'.res.result.self.protocolVersion = "2024-11-05"
        /\ exchange'.res.result.self.capabilities =
             [tools |-> EmptyObject, prompts |-> Null, resources |-> Null]
        /\ exchange'.res.result.self.serverInfo =
             [name |-> "smartsheet", version |-> PackageVersion]
        /\ exchange'.invoked = <<>>
        /\ UNCHANGED <<apiInstances, constructed, inflight, REQUIRE_AUTH, SECRET_KEY>> ]_vars

\* initialize answered with the gate on, a wrong secret, no API key, a
\* client in the pool and calls pending
C20_Witness ==
  /\ exchange.stage = "responded"
  /\ Asks(exchange.req, "initialize")
  /\ GateOn
  /\ exchange.req.secretKey = "wrong"
  /\ exchange.req.apiKey = Undefined
  /\ exchange.res.result.self = InitializeResult
  /\ exchange.res.id = exchange.req.body.id
  /\ apiInstances # <<>>
  /\ inflight # EmptyBag

(***************************************************************************)
(* Vocabulary of the properties on discovery.                              *)
(***************************************************************************)
\* the request is a GET that Express routes to app.get('/tools')
ToTools(req) == req.verb = "GET" /\ RoutePath(req.path) = "/tools"

\* the request asks for the catalogue, by tools/list or by GET /tools
Discovers(req) == ToTools(req) \/ (ToMcp(req) /\ Asks(req, "tools/list"))

\* the step serves a discovery request
Discovering == Receiving /\ Discovers(exchange'.req)

(***************************************************************************)
(* C21: serving tools/list or GET /tools invokes no tool handler and       *)
(* leaves the pool as it was - the same entries in the same order, no      *)
(* client built for it - and the credential-less client the extraction     *)
(* builds is not among the clients of the pool.                            *)
(***************************************************************************)
C21_DiscoveryLeavesPoolAlone ==
  [][ Discovering =>
        /\ exchange'.stage = "responded"
        /\ exchange'.invoked = <<>>
        /\ apiInstances' = apiInstances
        /\ constructed' = constructed
        /\ \A e \in Entries(apiInstances') : e.api # dummyApi /\ e.api.apiKey # "" ]_vars

\* the catalogue served by GET /tools while the pool is full and a call is
\* pending
C21_Witness ==
  /\ exchange.stage = "responded"
  /\ ToTools(exchange.req)
  /\ exchange.res.result.kind = "tools"
  /\ Len(exchange.res.result.tools) = 7
  /\ Len(apiInstances) = PoolLimit
  /\ inflight # EmptyBag

\* the names of the catalogue getToolDefinitions gives for a flag
Catalogue(allowDeleteTools) ==
  LET tools == getToolDefinitions(allowDeleteTools)
  IN { tools[i].name : i \in 1..Len(tools) }

\* the flag a request's x-allow-delete-tools header stands for
AllowsDelete(req) == req.allowDelete = "true"

\* the tools/call of the exchange ended in `Tool not found`
ToolNotFound ==
  /\ exchange.stage = "responded"
  /\ exchange.invoked = <<>>
  /\ exchange.outcome.kind = "threw"
  /\ exchange.outcome.thrown.message = "Tool not found: " \o ToStr(exchange.req.body.name)

\* a tool the sweep registers only when the flag is set
DeletionGated(name) == Registered(name, TRUE) /\ ~Registered(name, FALSE)

(***************************************************************************)
(* C22: the catalogue and the execution agree: a tools/call that reaches   *)
(* the sweep finds its tool exactly when the name is in the catalogue      *)
(* tools/list gives for the same x-allow-delete-tools header.  A tool      *)
(* registered only when deletion is allowed is listed by tools/list, and   *)
(* found by tools/call, only when the header is the string true, and GET   *)
(* /tools never lists it.                                                  *)
(***************************************************************************)
C22_DiscoveryAgreesWithExecution ==
  /\ (Served_ /\ Gets(exchange.req)) =>
        /\ ToolNotFound <=> exchange.req.body.name \notin Catalogue(AllowsDelete(exchange.req))
        /\ ~ToolNotFound => exchange.invoked # <<>>
        /\ (DeletionGated(exchange.req.body.name) /\ exchange.req.allowDelete # "true")
             => ToolNotFound
  /\ (exchange.stage = "responded" /\ Discovers(exchange.req)) =>
        \A i \in 1..Len(exchange.res.result.tools) :
          DeletionGated(exchange.res.result.tools[i].name) =>
            ToMcp(exchange.req) /\ exchange.req.allowDelete = "true"

\* delete_rows asked with x-allow-delete-tools: yes is not found
C22_Witness ==
  /\ ToolNotFound
  /\ Gets(exchange.req)
  /\ exchange.req.body.name = "delete_rows"
  /\ exchange.req.allowDelete = "yes"
  /\ "delete_rows" \in Catalogue(TRUE)

(***************************************************************************)
(* C23: a tools/call goes through its steps in a fixed order - the check   *)
(* of the secret, the check of the API key, the get-or-create in the pool, *)
(* the sweep with the handler, the response - and a request rejected at a  *)
(* step does none of the later ones: with authentication in force a        *)
(* missing or wrong secret is answered 401 / -32001 even when the API key  *)
(* is missing too, and touches neither the pool nor a handler; a missing   *)
(* API key is answered -32602 and touches neither; otherwise the key of    *)
(* the request is in the pool before any handler runs and before any       *)
(* response is sent.                                                       *)
(***************************************************************************)
C23_StepsInOrder ==
  (Served_ /\ ToMcp(exchange.req) /\ Asks(exchange.req, "tools/call")) =>
    IF GateOn /\ BadSecret(exchange.req)
    THEN /\ exchange.stage = "responded"
         /\ exchange.res.status = 401
         /\ IsError(exchange.res, -32001)
         /\ ~exchange.built
         /\ exchange.invoked = <<>>
    ELSE IF Falsy(exchange.req.apiKey)
    THEN /\ exchange.stage = "responded"
         /\ IsError(exchange.res, -32602)
         /\ ~exchange.built
         /\ exchange.invoked = <<>>
    ELSE /\ KeyOf(exchange.req) \in Keys(apiInstances)
         /\ exchange.invoked = <<>> => ToolNotFound
         /\ exchange.stage = "responded" => IsError(exchange.res, -32603)

(***************************************************************************)
(* C24: a tools/call whose handler has not settled holds back its own      *)
(* response only.  Whenever calls are pending and the event loop is free,  *)
(* every request - initialize, tools/list, GET /tools, a tools/call on any *)
(* key, the key of a pending call included - can be taken and served up to *)
(* its response or to its own await; none waits for a pending handler.     *)
(* (The model keeps at most MaxInflight calls pending, so the property is  *)
(* stated where fewer are pending.)                                        *)
(***************************************************************************)
C24_PendingCallBlocksNoOther ==
  ( /\ exchange.stage = "idle"
    /\ inflight # EmptyBag
    /\ BagCardinality(inflight) < MaxInflight )
  => \A req \in RouterRequests : \A sync \in SyncChoices(req) :
       ENABLED Receive(req, sync)

\* tools/list answered, and a second call on the same key suspended, while
\* the first call on that key is still pending
C24_Witness ==
  /\ exchange.stage = "awaiting"
  /\ BagCardinality(inflight) = 2
  /\ \A call \in BagToSet(inflight) : call.api = exchange.call.api
  /\ \E call \in BagToSet(inflight) : call.requestId # exchange.call.requestId

\* the step resumes a suspended handler
Settling == exchange.stage = "idle" /\ exchange'.stage = "settled"

\* what the handler of a request keeps across its await
CallOf(req, api) ==
  Call(req.body.id, req.body.name,
       IF Falsy(req.body.arguments) THEN EmptyObject ELSE req.body.arguments, api)

(***************************************************************************)
(* C25: whatever the interleaving of tools/call requests at their awaits,  *)
(* a request that suspends keeps its own id, tool name, arguments and      *)
(* client, the handler invoked for it is invoked with these, and the calls *)
(* already pending are left as they are; when a call's promise settles,    *)
(* the response is that call's: a success carries the call's id and the    *)
(* value its promise resolved with, a failure the error of its promise;    *)
(* the other pending calls are not touched.  (Which id a failure response  *)
(* carries is the matter of C6.)                                           *)
(***************************************************************************)
C25_NoCrossRequestMixUp ==
  [][ /\ (Receiving /\ exchange'.stage = "awaiting") =>
           LET own == CallOf(exchange'.req, Stored(apiInstances', KeyOf(exchange'.req)))
           IN /\ exchange'.call = own
              /\ exchange'.invoked = <<Invocation(own.toolName, own.toolArguments, own.api)>>
              /\ inflight' = inflight (+) SetToBag({own})
      /\ (Receiving /\ exchange'.stage = "responded") => inflight' = inflight
      /\ Settling =>
           /\ BagIn(exchange'.call, inflight)
           /\ inflight' = inflight (-) SetToBag({exchange'.call})
           /\ exchange'.outcome.kind = "resolve" =>
                exchange'.res = JsonRpcResult([NoResult EXCEPT
                                                 !.kind = "value",
                                                 !.value = exchange'.outcome.value],
                                              exchange'.call.requestId)
           /\ exchange'.outcome.kind = "reject" =>
                /\ IsError(exchange'.res, -32603)
                /\ ~exchange'.outcome.thrown.nullish =>
                     exchange'.res.message =
                       "Tool execution error: " \o exchange'.outcome.thrown.message ]_vars

\* of two pending calls that differ in id, tool, arguments and client, the
\* first received is answered while the other stays pending
C25_Witness ==
  /\ exchange.stage = "settled"
  /\ exchange.outcome.kind = "resolve"
  /\ exchange.call.toolName = "get_sheet"
  /\ exchange.res.id = NumSeven
  /\ \E other \in BagToSet(inflight) :
       /\ other.requestId = NumZero
       /\ other.toolName = "get_folder"
       /\ other.toolArguments # exchange.call.toolArguments
       /\ other.api # exchange.call.api

\* the clients alive: those the pool stores and those the pending calls hold
Live ==
  { e.api : e \in Entries(apiInstances) } \cup { call.api : call \in BagToSet(inflight) }

\* two clients built for the same API key and endpoint
SameCredentials(a, b) == a.apiKey = b.apiKey /\ a.endpoint = b.endpoint

(***************************************************************************)
(* C26: in every reachable state the credentials of a key have at most one *)
(* live client, counting the client the pool stores and the clients the    *)
(* pending calls hold: a client held by a pending call and any live client *)
(* built for the same API key and endpoint are one and the same object.    *)
(***************************************************************************)
C26_OneLiveHandlePerKey ==
  \A call \in BagToSet(inflight) :
    \A api \in Live :
      SameCredentials(call.api, api) => call.api = api

\* the client was built with the API key and the effective endpoint of the
\* request: new SmartsheetAPI(apiKey, apiEndpoint || 'https://api.smartsheet.com/2.0')
BuiltFor(api, req) ==
  /\ api.apiKey = req.apiKey
  /\ api.endpoint = (IF Falsy(req.endpoint) THEN DefaultEndpoint ELSE req.endpoint)

(***************************************************************************)
(* C27: the client a tool handler is given was built with the API key and  *)
(* the effective endpoint of the request being served (the header, or      *)
(* https://api.smartsheet.com/2.0 without one), also when keys or          *)
(* endpoints contain a colon and when the endpoint header is the word      *)
(* default: requests whose pairs differ are never given the same client.   *)
(***************************************************************************)
C27_HandleMatchesCredentials ==
  Served_ =>
    \A api \in HandedOut(exchange) : BuiltFor(api, exchange.req)

(***************************************************************************)
(* C28: the pool changes only in the serving of a tools/call that the auth *)
(* middleware has let through and that carries an API key.  Such a call    *)
(* has its key in the pool from then on, whatever becomes of it: when the  *)
(* tool is not found or the handler throws, the key stays inserted and an  *)
(* eviction it caused stays done; the settlement of a promise, a rejection *)
(* included, and every other request leave the pool as it was.             *)
(***************************************************************************)
C28_PoolChangedOnlyByToolsCall ==
  [][ /\ apiInstances' # apiInstances => Receiving /\ Gets(exchange'.req)
      /\ (Receiving /\ Gets(exchange'.req)) =>
           /\ KeyOf(exchange'.req) \in Keys(apiInstances')
           /\ GetOfAbsent => exchange'.built /\ apiInstances' # apiInstances
      /\ Settling => apiInstances' = apiInstances ]_vars

\* a call for a tool that does not exist has inserted its key and evicted
\* the oldest entry
C28_Witness ==
  /\ ToolNotFound
  /\ exchange.built
  /\ exchange.evicted # <<>>
  /\ KeyOf(exchange.req) \in Keys(apiInstances)
  /\ exchange.evicted[1] \notin Keys(apiInstances)

\* a response has been sent in the section
Answered(ex) == ex.res # NoResponse

(***************************************************************************)
(* C29: a POST /mcp request is answered at most once, and once when the    *)
(* handler it invoked, if any, settles.  The section that serves it either *)
(* sends the response and leaves nothing pending, or sends nothing and     *)
(* leaves one pending call; a pending call can settle with any outcome,    *)
(* and its settlement sends one response and ends the call, so that no     *)
(* second response can follow.  A request the auth middleware rejects is   *)
(* answered by the middleware, 401 / -32001, and the /mcp handler does     *)
(* nothing for it: no client, no handler, no pending call.                 *)
(***************************************************************************)
C29_OneResponsePerRequest ==
  [][ /\ Receiving =>
           \/ /\ exchange'.stage = "responded"
              /\ Answered(exchange')
              /\ inflight' = inflight
           \/ /\ exchange'.stage = "awaiting"
              /\ ~Answered(exchange')
              /\ inflight' = inflight (+) SetToBag({exchange'.call})
      /\ (Receiving /\ GateRejects(exchange'.req)) =>
           /\ exchange'.stage = "responded"
           /\ exchange'.res.status = 401 /\ IsError(exchange'.res, -32001)
           /\ exchange'.invoked = <<>>
           /\ apiInstances' = apiInstances
      /\ Settling =>
           /\ Answered(exchange')
           /\ BagCardinality(inflight') = BagCardinality(inflight) - 1
           /\ inflight' = inflight (-) SetToBag({exchange'.call})
      /\ exchange.stage = "idle" =>
           \A call \in BagToSet(inflight) : \A settlement \in Settlements :
             ENABLED Settle(call, settlement) ]_vars

\* the last pending call has been answered, with an error, and nothing is
\* left to answer
C29_Witness ==
  /\ exchange.stage = "settled"
  /\ exchange.outcome.kind = "reject"
  /\ Answered(exchange)
  /\ exchange.call.active
  /\ inflight = EmptyBag

\* the fields of a schema that expose a description attribute, in order
Described(schema) == SelectSeq(schema, LAMBDA f : f.described)

(***************************************************************************)
(* C30: the definition pushed for a tool has an inputSchema of type object *)
(* whose properties are exactly the fields of the tool's schema that       *)
(* expose a description attribute, in their order, each with the type      *)
(* string and the description of its field; these same keys are what       *)
(* required lists; a field without the attribute gives no property; a tool *)
(* registered without a schema has no property at all.                     *)
(***************************************************************************)
C30_SchemaProjection ==
  registration.stage = "pushed" =>
    LET tool == registration.tool
        inputSchema == registration.definition.inputSchema
        kept == Described(tool.schema)
    IN /\ registration.definition.name = tool.name
       /\ registration.definition.description = tool.description
       /\ inputSchema.type = "object"
       /\ Len(inputSchema.properties) = Len(kept)
       /\ \A i \in 1..Len(kept) :
            inputSchema.properties[i] =
              [key |-> kept[i].key, type |-> "string", description |-> kept[i].description]
       /\ Len(kept) > 0 =>
            /\ inputSchema.hasRequired
            /\ inputSchema.required = [i \in 1..Len(kept) |-> kept[i].key]
       /\ ~tool.hasSchema => inputSchema.properties = <<>>

\* of two fields, the one without a description attribute is dropped
C30_Witness ==
  /\ registration.stage = "pushed"
  /\ Len(registration.tool.schema) = 2
  /\ ~registration.tool.schema[1].described
  /\ registration.tool.schema[2].described
  /\ Len(registration.definition.inputSchema.properties) = 1
  /\ registration.definition.inputSchema.required = <<registration.tool.schema[2].key>>

\* getApiInstance called now with these headers
GotNow(apiKey, apiEndpoint) ==
  getApiInstance(apiInstances, constructed, apiKey, apiEndpoint)

(***************************************************************************)
(* C31: when getApiInstance returns, the pool maps the key of the call to  *)
(* the client returned - in any state and for any API key and endpoint,    *)
(* and so for the request a step serves, whose handler is given the client *)
(* stored under its key; the entry an insertion evicts is never the one it *)
(* has just inserted; and no step makes the pool smaller.                  *)
(***************************************************************************)
C31_ReturnedHandleIsStored ==
  [][ /\ \A apiKey \in ApiKeys, apiEndpoint \in Endpoints :
           LET got == GotNow(apiKey, apiEndpoint)
               key == CredentialKey(apiKey, apiEndpoint)
           IN /\ key \in Keys(got.instances)
              /\ Stored(got.instances, key) = got.api
              /\ got.evicted # <<key>>
      /\ (Receiving /\ Gets(exchange'.req)) =>
           /\ KeyOf(exchange'.req) \in Keys(apiInstances')
           /\ HandedOut(exchange') \subseteq {Stored(apiInstances', KeyOf(exchange'.req))}
           /\ exchange'.evicted # <<KeyOf(exchange'.req)>>
      /\ Len(apiInstances') >= Len(apiInstances) ]_vars

\* an insertion into the full pool has evicted another entry and the
\* handler runs with the client now stored under the key of its request
C31_Witness ==
  /\ exchange.stage = "awaiting"
  /\ exchange.built
  /\ Len(exchange.evicted) = 1
  /\ exchange.evicted[1] # KeyOf(exchange.req)
  /\ Stored(apiInstances, KeyOf(exchange.req)) = exchange.call.api
  /\ apiInstances[Len(apiInstances)].key = KeyOf(exchange.req)
  /\ Len(apiInstances) = PoolLimit

====
